---- MODULE Spec2Model ----
(***************************************************************************)
(* The main process of the yt-dlp desktop front end (electron main.ts):    *)
(* the download history kept in the persisted store, the set of tracked    *)
(* download processes, the download-video request handler with the three   *)
(* listeners it installs on the process handle, the will-quit handler,     *)
(* the startup routine (app.whenReady) with the activate and               *)
(* window-all-closed listeners, the get-video-info handler with the        *)
(* format lists it makes, and the set-download-path handler; and, of the   *)
(* renderer, the api object of preload.ts and the page's listeners,        *)
(* handleFetchInfo and handleDownload (renderer/pages/index.tsx).          *)
(*                                                                         *)
(* The handle returned by ytDlpWrap.exec and the electron objects are      *)
(* external: the handle is taken to emit progress, error and close events  *)
(* and to expose pid, killed and kill(); webContents.send is taken to hand *)
(* its message to the renderer (the requesting window is taken to be       *)
(* alive).                                                                 *)
(***************************************************************************)
EXTENDS Integers, Sequences, FiniteSets, TLC

VARIABLES
  platform,                 \* process.platform
  appPhase,                 \* "running", or "quitting" once will-quit has run
  now,                      \* the last value read from the clock (Date.now())
  downloadHistory,          \* store key 'downloadHistory'
  activeDownloadProcesses,  \* the Set of tracked handles (a handle is its request's number)
  reqs,                     \* per download-video invocation: its position and its locals
  procs,                    \* per handle: what the external process has done so far
  sent,                     \* per request: the messages its listeners handed to win.webContents.send
  kills,                    \* the termination commands issued by will-quit
  appended,                 \* history variable: the items appended since the last clear, newest first
  lastAppend,               \* history variable: the last append (list before, item)
  emitted,                  \* history variable: per handle, the events its process has emitted
  boot,                     \* the startup routine, the windows and what startup has shown and created
  info,                     \* one get-video-info request: what the fetch gives and what is returned
  downloadPath,             \* store key 'downloadPath'
  setPath,                  \* one set-download-path request: the dialog's answer and what is returned
  ui                        \* the renderer: the page's React state and its ipcRenderer listeners

vars == <<platform, appPhase, now, downloadHistory, activeDownloadProcesses,
          reqs, procs, sent, kills, appended, lastAppend, emitted, boot, info,
          downloadPath, setPath, ui>>

-----------------------------------------------------------------------------
(* Bounds of the model *)

MaxProgress == 1       \* progress events per process
MaxClock == 1          \* the clock reads 0..MaxClock
MaxAppends == 52       \* ledger appends since the last clear
MaxRedo == 1           \* ledger appends that repeat a path already in the list
MaxWindows == 4        \* createWindow calls of a run
MaxFormats == 4        \* descriptors in a metadata object
MaxTitle == 3          \* characters in a title

(* Program constants *)

HistoryCap == 50

-----------------------------------------------------------------------------
(* Values *)

Platforms == {"win32", "darwin", "linux"}

NoPath == ""           \* showSaveDialog's filePath when the dialog is cancelled

PathOf(n) == "/d/" \o ToString(n)

FilePaths == {PathOf(1), PathOf(2)}

Forbidden == {"\\", "/", ":", "*", "?", "\"", "<", ">", "|"}

\* the DownloadRequest values the renderer sends; a title is a sequence of characters
Requests ==
  { [url |-> "u", formatCode |-> "137", type |-> "mp4", title |-> <<"a", "/", "b", "?">>],
    [url |-> "u", formatCode |-> "140", type |-> "mp3", title |-> <<"a", "b">>] }

UnknownError == "An unknown download error occurred."

\* what a handle's error event carries: an Error with a message, or something else
ErrorValues == { [isError |-> TRUE, message |-> "boom"], [isError |-> FALSE, message |-> "x"] }

Percents == {50}

\* app.getPath('downloads'), the default of store key 'downloadPath'
DefaultDownloadPath == "/downloads"

\* no set-download-path request yet
NoSetPath == [pc |-> "none"]

\* a JavaScript object as a function of its keys: {}, {...obj, [key]: value}, delete obj[key]
EmptyObject == [k \in {} |-> ""]

Put(obj, key, value) == [k \in (DOMAIN obj) \cup {key} |-> IF k = key THEN value ELSE obj[k]]

Delete(obj, key) == [k \in (DOMAIN obj) \ {key} |-> obj[k]]

\* useState<VideoInfo | null>(null)
Null == [null |-> TRUE]

\* the page before its effect has run: the useState initial values, no listener
Unmounted ==
  [ apiReady |-> FALSE, listeners |-> {}, pc |-> "idle", settled |-> "none",
    url |-> "", loading |-> FALSE, error |-> "", videoInfo |-> Null,
    downloadProgress |-> EmptyObject, downloadErrors |-> EmptyObject,
    completedFiles |-> EmptyObject,
    invoked |-> <<>>,        \* the download-video invocations made, in order
    delivered |-> 0 ]        \* how many of the messages sent to the window have arrived

Min(a, b) == IF a <= b THEN a ELSE b

-----------------------------------------------------------------------------
(* addDownloadToHistory *)

\* title.replace(/[\\/:\*\?"<>\|]/g, ''): every match is removed (the g flag)
RECURSIVE SanitizeFirstOnly(_)
SanitizeFirstOnly(title) ==
  IF title = <<>> THEN <<>>
  ELSE IF Head(title) \in Forbidden THEN Tail(title)
       ELSE <<Head(title)>> \o SanitizeFirstOnly(Tail(title))

Sanitize(title) == SelectSeq(title, LAMBDA c : c \notin Forbidden)

Extension(type) == IF type = "mp4" THEN "mp4" ELSE "mp3"

\* history.slice(0, n)
Slice(h, n) == SubSeq(h, 1, Min(n, Len(h)))

\* .filter((h) => h.filePath !== item.filePath)
RECURSIVE FilterPath(_, _)
FilterPath(h, path) ==
  IF h = <<>> THEN <<>>
  ELSE IF Head(h).filePath # path
       THEN <<Head(h)>> \o FilterPath(Tail(h), path)
       ELSE FilterPath(Tail(h), path)

\* the value addDownloadToHistory(item) stores, from the stored list h
AddDownloadToHistoryMissingFilter(h, item) == Slice(<<item>> \o h, HistoryCap)

AddDownloadToHistoryNoSlice(h, item) == <<item>> \o FilterPath(h, item.filePath)

AddDownloadToHistoryPush(h, item) ==
  Slice(FilterPath(h, item.filePath) \o <<item>>, HistoryCap)

AddDownloadToHistoryEarlyCut(h, item) ==
  Slice(<<item>> \o FilterPath(h, item.filePath), 2)

AddDownloadToHistoryOverwrite(h, item) == <<item>>

addDownloadToHistory(h, item) ==
  Slice(<<item>> \o FilterPath(h, item.filePath), HistoryCap)

\* the item the close listener builds
HistoryItem(clock, formatCode, sanitizedTitle, filePath, extension) ==
  [ id |-> <<clock, formatCode>>,
    title |-> sanitizedTitle,
    filePath |-> filePath,
    type |-> extension,
    downloadedAt |-> clock ]

NoAppend == [done |-> FALSE]

\* no get-video-info request has been made
NoInfo == [pc |-> "none"]

-----------------------------------------------------------------------------
(* Startup: app.whenReady().then(...), with the activate and                *)
(* window-all-closed listeners                                             *)

\* what `new Store` or downloadFromGithub may throw: Errors (a network error, a
\* write failure) or a value that is not an Error
StartupErrors ==
  { [isError |-> TRUE, message |-> "ENOTFOUND"],
    [isError |-> TRUE, message |-> "EACCES"],
    [isError |-> FALSE, message |-> "x"] }

Succeeds == [ok |-> TRUE]

Outcomes == {Succeeds} \cup { [ok |-> FALSE, error |-> e] : e \in StartupErrors }

\* const ytDlpFilename = process.platform === 'win32' ? 'yt-dlp.exe' : 'yt-dlp'
YtDlpFilename(plat) == IF plat = "win32" THEN "yt-dlp.exe" ELSE "yt-dlp"

\* String(error): a thrown value that is not an Error is a string, its own string form
StringOf(e) == e.message

\* error instanceof Error ? error.message : String(error)
StartupErrorMsg(e) == IF e.isError THEN e.message ELSE StringOf(e)

\* the state at launch; exists: a file is at ytDlpPath
Launch(exists) ==
  [ pc |-> "launch", store |-> FALSE, binary |-> exists, found |-> "unchecked",
    fetched |-> <<>>, wrapper |-> FALSE, windows |-> 0, created |-> <<>>,
    errorBox |-> <<>>, quit |-> FALSE,
    existed |-> exists,      \* history: a file was at ytDlpPath at launch
    thrown |-> <<>> ]        \* history: what the try block has thrown, and at which step

\* createWindow(), called by `by`
CreateWindow(b, by) == [b EXCEPT !.windows = @ + 1, !.created = Append(@, by)]

\* the end of the try block: ytDlpWrap = new YtDlpWrap(); setBinaryPath; createWindow()
Ready(b) == CreateWindow([b EXCEPT !.pc = "started", !.wrapper = TRUE], "startup")

\* the catch block: dialog.showErrorBox(...); app.quit()
FailSilently(b, e) == [b EXCEPT !.pc = "failed"]

Fail(b, e) ==
  [b EXCEPT !.pc = "failed",
            !.errorBox = Append(@, [title |-> "Critical Error", errorMsg |-> StartupErrorMsg(e)]),
            !.quit = TRUE]

\* fs.existsSync(ytDlpPath) ? skip : fetch
NeedsFetchAlways(exists) == TRUE

NeedsFetch(exists) == ~exists

BootFrame ==
  UNCHANGED <<downloadPath, setPath, ui, info, platform, appPhase, now, downloadHistory, activeDownloadProcesses, reqs,
              procs, sent, kills, appended, lastAppend, emitted>>

\* the whenReady callback up to `await downloadFromGithub` or, without a fetch, to its end
WhenReady(storeInit) ==
  /\ boot.pc = "launch"
  /\ IF ~storeInit.ok
     THEN boot' = Fail([boot EXCEPT !.thrown = Append(@, [step |-> "store", error |-> storeInit.error])],
                       storeInit.error)
     ELSE LET checked == [boot EXCEPT !.store = TRUE,
                                      !.found = IF boot.binary THEN "present" ELSE "absent"]
          IN IF NeedsFetch(boot.binary)
             THEN boot' = [checked EXCEPT !.pc = "fetching",
                                          !.fetched = Append(@, YtDlpFilename(platform))]
             ELSE boot' = Ready(checked)
  /\ BootFrame

\* the whenReady callback from the answer of downloadFromGithub on
FetchResolved(fetch) ==
  /\ boot.pc = "fetching"
  /\ IF fetch.ok
     THEN boot' = Ready([boot EXCEPT !.binary = TRUE])
     ELSE boot' = Fail([boot EXCEPT !.thrown = Append(@, [step |-> "fetch", error |-> fetch.error])],
                       fetch.error)
  /\ BootFrame

\* app.on('activate') with no window open (the event is emitted on macOS)
Activate ==
  /\ platform = "darwin"
  /\ boot.pc # "launch" /\ ~boot.quit
  /\ boot.windows = 0
  /\ Len(boot.created) < MaxWindows
  /\ boot' = CreateWindow(boot, "activate")
  /\ BootFrame

\* a window is closed; app.on('window-all-closed') runs when it was the last one
CloseWindow ==
  /\ boot.windows > 0 /\ ~boot.quit
  /\ boot' = [boot EXCEPT !.windows = @ - 1,
                          !.quit = (boot.windows = 1 /\ platform # "darwin")]
  /\ BootFrame

\* the state the request handlers start from: startup has run with the binary in place
Started == Ready([Launch(TRUE) EXCEPT !.store = TRUE, !.found = "present"])

StartupInit ==
  /\ platform \in Platforms
  /\ appPhase = "running"
  /\ now = 0
  /\ downloadHistory = <<>>
  /\ activeDownloadProcesses = {}
  /\ reqs = <<>>
  /\ procs = <<>>
  /\ sent = <<>>
  /\ kills = {}
  /\ appended = <<>>
  /\ lastAppend = NoAppend
  /\ emitted = <<>>
  /\ boot \in { Launch(exists) : exists \in BOOLEAN }
  /\ info = NoInfo
  /\ downloadPath = DefaultDownloadPath
  /\ setPath = NoSetPath
  /\ ui = Unmounted

StartupNext ==
  \/ \E storeInit \in Outcomes : WhenReady(storeInit)
  \/ \E fetch \in Outcomes : FetchResolved(fetch)
  \/ Activate
  \/ CloseWindow

SpecStartup == StartupInit /\ [][StartupNext]_vars

-----------------------------------------------------------------------------
(* get-video-info: the format lists made of the metadata of yt-dlp          *)

\* an optional number field (height, filesize, filesize_approx, abr) that is absent
Undefined == -1

\* an optional string (format_note, contentLength) that is absent; strings are
\* sequences of characters
NoString == <<>>

\* x is truthy: `x ? ... : ...`, `x || ...`
Truthy(x) == x # Undefined /\ x # 0

\* x ?? 0
OrZero(x) == IF x = Undefined THEN 0 ELSE x

\* a || b
Or(a, b) == IF Truthy(a) THEN a ELSE b

DigitChars == <<"0", "1", "2", "3", "4", "5", "6", "7", "8", "9">>

\* n.toString() of a natural number
RECURSIVE DecimalString(_)
DecimalString(n) ==
  IF n < 10 THEN <<DigitChars[n + 1]>>
  ELSE DecimalString(n \div 10) \o <<DigitChars[(n % 10) + 1]>>

IsDigit(c) == \E d \in 1..10 : DigitChars[d] = c

\* the end of the run of digits of s that starts at position i
RECURSIVE DigitsEnd(_, _)
DigitsEnd(s, i) ==
  IF i < Len(s) /\ IsDigit(s[i + 1]) THEN DigitsEnd(s, i + 1) ELSE i

\* note.match(/\d+p/)?.[0], looked for from position i on
RECURSIVE MatchDigitsP(_, _)
MatchDigitsP(s, i) ==
  IF i > Len(s) THEN NoString
  ELSE IF IsDigit(s[i]) /\ DigitsEnd(s, i) < Len(s) /\ s[DigitsEnd(s, i) + 1] = "p"
       THEN SubSeq(s, i, DigitsEnd(s, i) + 1)
       ELSE MatchDigitsP(s, i + 1)

\* Math.round of a bitrate; a bitrate is held in tenths of kbps (1295 is 129.5)
RoundDown(abr) == abr \div 10

Round(abr) == (abr + 5) \div 10

\* the descriptors yt-dlp may report (YTDlpFormat)
Descriptor(id, note, height, ext, vcodec, acodec, filesize, approx, abr) ==
  [ format_id |-> id, format_note |-> note, height |-> height, ext |-> ext,
    vcodec |-> vcodec, acodec |-> acodec, filesize |-> filesize,
    filesize_approx |-> approx, abr |-> abr ]

Catalogue ==
  { Descriptor("137", NoString, 1080, "mp4", "avc1", "none", 500, Undefined, Undefined),
    Descriptor("299", <<"1", "0", "8", "0", "p", "6", "0">>, 1080, "mp4", "avc1", "none",
               Undefined, 400, Undefined),
    Descriptor("136", NoString, 720, "mp4", "avc1", "none", 200, Undefined, Undefined),
    Descriptor("135", <<"h", "d">>, 480, "mp4", "avc1", "none", Undefined, Undefined, Undefined),
    Descriptor("248", NoString, 1080, "webm", "vp9", "none", 300, Undefined, Undefined),
    Descriptor("18", NoString, 360, "mp4", "avc1", "mp4a", 50, Undefined, 960),
    Descriptor("22", NoString, 720, "mp4", "avc1", "mp4a", 0, 70, 1280),
    Descriptor("251", NoString, Undefined, "webm", "none", "opus", 30, Undefined, 1600),
    Descriptor("140", NoString, Undefined, "m4a", "none", "mp4a", Undefined, 20, 1295),
    Descriptor("140-1", NoString, Undefined, "m4a", "none", "mp4a", Undefined, Undefined, 1295),
    Descriptor("250", NoString, Undefined, "webm", "none", "opus", 10, Undefined, 704),
    Descriptor("600", NoString, Undefined, "webm", "none", "opus", 5, Undefined, Undefined) }

\* the format lists of a metadata object: descriptors with distinct format ids
FormatLists ==
  UNION { { l \in [1..n -> Catalogue] : \A a, b \in 1..n : a # b => l[a] # l[b] } :
          n \in 0..MaxFormats }

\* Array.prototype.sort with the comparator (a, b) => key(b) - key(a): descending by key,
\* elements of equal key in their order in s (the sort is stable); key[i] is s[i]'s key
SortDescendingUnstable(s, key) ==
  LET place(i) == 1 + Cardinality({ j \in 1..Len(s) :
                        key[j] > key[i] \/ (key[j] = key[i] /\ j > i) })
  IN [p \in 1..Len(s) |-> s[CHOOSE i \in 1..Len(s) : place(i) = p]]

SortDescending(s, key) ==
  LET place(i) == 1 + Cardinality({ j \in 1..Len(s) :
                        key[j] > key[i] \/ (key[j] = key[i] /\ j < i) })
  IN [p \in 1..Len(s) |-> s[CHOOSE i \in 1..Len(s) : place(i) = p]]

\* f.filesize || f.filesize_approx || 0
SizeOf(f) == Or(f.filesize, Or(f.filesize_approx, 0))

\* the first filter of processVideoFormats
IsVideo(f) == f.vcodec # "none" /\ f.acodec = "none" /\ f.ext = "mp4" /\ Truthy(f.height)

\* the second filter of processVideoFormats, with its seenResolutions
DedupeHeightsNone(s, seenResolutions) == s

RECURSIVE DedupeHeights(_, _)
DedupeHeights(s, seenResolutions) ==
  IF s = <<>> THEN <<>>
  ELSE IF Head(s).height \in seenResolutions
       THEN DedupeHeights(Tail(s), seenResolutions)
       ELSE <<Head(s)>> \o DedupeHeights(Tail(s), seenResolutions \cup {Head(s).height})

\* qualityLabel || 'Unknown' (no descriptor of the filter lacks a height)
QualityLabel(f) ==
  IF MatchDigitsP(f.format_note, 1) # NoString THEN MatchDigitsP(f.format_note, 1)
  ELSE DecimalString(f.height) \o <<"p">>

\* totalSize > 0 ? totalSize.toString() : undefined
ContentLengthAlways(totalSize) == DecimalString(totalSize)

ContentLength(totalSize) == IF totalSize > 0 THEN DecimalString(totalSize) ELSE NoString

\* the map of processVideoFormats
VideoEntry(f, bestAudioSize) ==
  [ itag |-> f.format_id, quality |-> QualityLabel(f), container |-> f.ext,
    contentLength |-> ContentLength(SizeOf(f) + bestAudioSize), type |-> "mp4" ]

processVideoFormats(formats, bestAudioSize) ==
  LET candidates == SelectSeq(formats, IsVideo)
      sorted == SortDescending(candidates, [i \in 1..Len(candidates) |-> OrZero(candidates[i].height)])
      kept == DedupeHeights(sorted, {})
  IN [k \in 1..Len(kept) |-> VideoEntry(kept[k], bestAudioSize)]

\* the filter of processAudioFormats
IsAudio(f) == f.vcodec = "none" /\ f.acodec # "none" /\ OrZero(f.abr) > 0

\* the map of processAudioFormats
AudioEntry(f) ==
  [ itag |-> f.format_id,
    quality |-> DecimalString(Round(OrZero(f.abr))) \o <<"k", "b", "p", "s">>,
    container |-> f.ext,
    contentLength |-> IF Or(f.filesize, f.filesize_approx) = Undefined THEN NoString
                      ELSE DecimalString(Or(f.filesize, f.filesize_approx)),
    type |-> "mp3" ]

AudioCap == 3

processAudioFormatsNoSlice(formats) ==
  LET candidates == SelectSeq(formats, IsAudio)
      sorted == SortDescending(candidates, [i \in 1..Len(candidates) |-> OrZero(candidates[i].abr)])
  IN [k \in 1..Len(sorted) |-> AudioEntry(sorted[k])]

processAudioFormats(formats) ==
  LET candidates == SelectSeq(formats, IsAudio)
      sorted == SortDescending(candidates, [i \in 1..Len(candidates) |-> OrZero(candidates[i].abr)])
      top == Slice(sorted, AudioCap)
  IN [k \in 1..Len(top) |-> AudioEntry(top[k])]

\* the filter of bestAudioFormat
IsCombined(f) == f.vcodec # "none" /\ f.acodec # "none" /\ OrZero(f.abr) > 0

\* bestAudioFormat?.filesize || bestAudioFormat?.filesize_approx || 0
BestAudioSize(formats) ==
  LET candidates == SelectSeq(formats, IsCombined)
      sorted == SortDescending(candidates, [i \in 1..Len(candidates) |-> OrZero(candidates[i].abr)])
  IN IF sorted = <<>> THEN 0 ELSE SizeOf(sorted[1])

\* what ytDlpWrap.getVideoInfo(url) gives: a metadata object, or a throw
Metadata == { [title |-> "t", thumbnail |-> "th", formats |-> l] : l \in FormatLists }

FetchOutcomes ==
  { [ok |-> TRUE, metadata |-> m] : m \in Metadata }
    \cup { [ok |-> FALSE, error |-> e] : e \in ErrorValues }

\* the fixed text of the catch block (in Korean in the source)
UnknownInfoError == "An unknown error occurred."

\* error instanceof Error ? error.message : <the fixed text>
InfoErrorFixed(e) == UnknownInfoError

InfoErrorMessage(e) == IF e.isError THEN e.message ELSE UnknownInfoError

\* the value the handler returns
InfoResult(fetch) ==
  IF fetch.ok
  THEN [ title |-> fetch.metadata.title,
         thumbnail |-> fetch.metadata.thumbnail,
         formats |-> processVideoFormats(fetch.metadata.formats,
                                         BestAudioSize(fetch.metadata.formats))
                       \o processAudioFormats(fetch.metadata.formats) ]
  ELSE [ error |-> InfoErrorMessage(fetch.error) ]

InfoFrame ==
  UNCHANGED <<downloadPath, setPath, ui, boot, platform, appPhase, now, downloadHistory, activeDownloadProcesses, reqs,
              procs, sent, kills, appended, lastAppend, emitted>>

\* the handler up to `await ytDlpWrap.getVideoInfo(url)`
GetVideoInfo(url) ==
  /\ info.pc \in {"none", "done"}
  /\ info' = [pc |-> "fetching", url |-> url]
  /\ InfoFrame

\* the handler from the answer of the fetch on
InfoResolved(fetch) ==
  /\ info.pc = "fetching"
  /\ info' = [pc |-> "done", url |-> info.url, fetch |-> fetch, result |-> InfoResult(fetch)]
  /\ InfoFrame

InfoInit ==
  /\ platform = "linux"
  /\ appPhase = "running"
  /\ now = 0
  /\ downloadHistory = <<>>
  /\ activeDownloadProcesses = {}
  /\ reqs = <<>>
  /\ procs = <<>>
  /\ sent = <<>>
  /\ kills = {}
  /\ appended = <<>>
  /\ lastAppend = NoAppend
  /\ emitted = <<>>
  /\ boot = Started
  /\ info = NoInfo
  /\ downloadPath = DefaultDownloadPath
  /\ setPath = NoSetPath
  /\ ui = Unmounted

InfoNext ==
  \/ GetVideoInfo("u")
  \/ info.pc = "fetching" /\ \E fetch \in FetchOutcomes : InfoResolved(fetch)

SpecInfo == InfoInit /\ [][InfoNext]_vars

-----------------------------------------------------------------------------
(* The ledger alone: addDownloadToHistory and clear-download-history       *)
(* applied to items whose paths are new or repeat a path of the list       *)

Paths(h) == { h[k].filePath : k \in 1..Len(h) }

Redone == Len(appended) - Cardinality(Paths(appended))

RedoPositions(h) == {1, 4, Len(h)} \cap (1..Len(h))

LedgerItem(path) ==
  HistoryItem(Len(appended) + 1, "137", Sanitize(<<"a", "b">>), path, Extension("mp4"))

LedgerFrame ==
  UNCHANGED <<downloadPath, setPath, ui, boot, info, platform, appPhase, now, activeDownloadProcesses, reqs, procs, sent,
              kills, emitted>>

LedgerAppend(item) ==
  /\ Len(appended) < MaxAppends
  /\ downloadHistory' = addDownloadToHistory(downloadHistory, item)
  /\ appended' = <<item>> \o appended
  /\ lastAppend' = [done |-> TRUE, before |-> downloadHistory, item |-> item]
  /\ LedgerFrame

LedgerAppendNew ==
  LedgerAppend(LedgerItem(PathOf(Cardinality(Paths(appended)) + 1)))

LedgerAppendAgain ==
  /\ Redone < MaxRedo
  /\ \E k \in RedoPositions(downloadHistory) :
       LedgerAppend(LedgerItem(downloadHistory[k].filePath))

\* ipcMain.handle('clear-download-history')
ClearHistoryValue == <<>>

LedgerClear ==
  /\ downloadHistory' = ClearHistoryValue
  /\ appended' = <<>>
  /\ lastAppend' = NoAppend
  /\ LedgerFrame

LedgerInit ==
  /\ platform = "linux"
  /\ appPhase = "running"
  /\ now = 0
  /\ downloadHistory = <<>>
  /\ activeDownloadProcesses = {}
  /\ reqs = <<>>
  /\ procs = <<>>
  /\ sent = <<>>
  /\ kills = {}
  /\ appended = <<>>
  /\ lastAppend = NoAppend
  /\ emitted = <<>>
  /\ boot = Started
  /\ info = NoInfo
  /\ downloadPath = DefaultDownloadPath
  /\ setPath = NoSetPath
  /\ ui = Unmounted

LedgerNext == LedgerAppendNew \/ LedgerAppendAgain \/ LedgerClear

SpecLedger == LedgerInit /\ [][LedgerNext]_vars

-----------------------------------------------------------------------------
(* The download-video handler, the listeners of its process handle,        *)
(* clear-download-history and will-quit                                    *)

\* the download-video requests of a run, in the order they arrive; request i's
\* process handle is i (the program sets no cap on the downloads in flight)
Handles == {1, 2}

IdleReq ==
  [ pc |-> "idle", url |-> "", formatCode |-> "", type |-> "", title |-> <<>>,
    sanitizedTitle |-> <<>>, extension |-> "", filePath |-> NoPath, args |-> <<>> ]

NoProc ==
  [ spawned |-> FALSE, killed |-> FALSE, progress |-> 0, errored |-> FALSE, closed |-> FALSE ]

Init ==
  /\ platform \in Platforms
  /\ appPhase = "running"
  /\ now = 0
  /\ downloadHistory = <<>>
  /\ activeDownloadProcesses = {}
  /\ reqs = [i \in Handles |-> IdleReq]
  /\ procs = [i \in Handles |-> NoProc]
  /\ sent = [i \in Handles |-> <<>>]
  /\ kills = {}
  /\ appended = <<>>
  /\ lastAppend = NoAppend
  /\ emitted = [i \in Handles |-> <<>>]
  /\ boot = Started
  /\ info = NoInfo
  /\ downloadPath = DefaultDownloadPath
  /\ setPath = NoSetPath
  /\ ui = Unmounted

\* the handler up to `await dialog.showSaveDialog`
DownloadVideo(i, r) ==
  /\ appPhase = "running"
  /\ reqs[i].pc = "idle"
  /\ \A j \in Handles : j < i => reqs[j].pc # "idle"
  /\ reqs' = [reqs EXCEPT ![i] =
       [ pc |-> "dialog", url |-> r.url, formatCode |-> r.formatCode, type |-> r.type,
         title |-> r.title, sanitizedTitle |-> Sanitize(r.title),
         extension |-> Extension(r.type), filePath |-> NoPath, args |-> <<>> ]]
  /\ UNCHANGED <<downloadPath, setPath, ui, boot, info, platform, appPhase, now, downloadHistory, activeDownloadProcesses,
                 procs, sent, kills, appended, lastAppend, emitted>>

\* if (filePath)
SpawnsAlways(filePath) == TRUE

Spawns(filePath) == filePath # NoPath

\* const args = [...]
ArgsNoAudio(url, formatCode, type, filePath) == <<url, "-f", formatCode, "-o", filePath>>

Args(url, formatCode, type, filePath) ==
  <<url, "-f", formatCode>>
    \o (IF type = "mp3" THEN <<"-x", "--audio-format", "mp3">> ELSE <<>>)
    \o <<"-o", filePath>>

\* activeDownloadProcesses.add(downloadProcess)
TrackNone(set, i) == set

Track(set, i) == set \cup {i}

\* the handler from the dialog's answer on
SaveDialogResolved(i, filePath) ==
  /\ appPhase = "running"
  /\ reqs[i].pc = "dialog"
  /\ IF Spawns(filePath)
     THEN /\ reqs' = [reqs EXCEPT ![i].pc = "done", ![i].filePath = filePath,
                        ![i].args = Args(reqs[i].url, reqs[i].formatCode, reqs[i].type, filePath)]
          /\ procs' = [procs EXCEPT ![i].spawned = TRUE]
          /\ activeDownloadProcesses' = Track(activeDownloadProcesses, i)
     ELSE /\ reqs' = [reqs EXCEPT ![i].pc = "done", ![i].filePath = filePath]
          /\ UNCHANGED <<procs, activeDownloadProcesses>>
  /\ UNCHANGED <<downloadPath, setPath, ui, boot, info, platform, appPhase, now, downloadHistory, sent, kills, appended,
                 lastAppend, emitted>>

\* the messages of request i's listeners
ProgressMsg(i, percent) ==
  [ channel |-> "download-progress",
    payload |-> [itag |-> reqs[i].formatCode, percent |-> percent] ]

ErrorText(e) == IF e.isError THEN e.message ELSE UnknownError

ErrorMsgNoItag(i, e) ==
  [ channel |-> "download-error",
    payload |-> [itag |-> "", error |-> ErrorText(e)] ]

ErrorMsg(i, e) ==
  [ channel |-> "download-error",
    payload |-> [itag |-> reqs[i].formatCode, error |-> ErrorText(e)] ]

CompleteMsg(i) ==
  [ channel |-> "download-complete",
    payload |-> [itag |-> reqs[i].formatCode, filePath |-> reqs[i].filePath] ]

\* win.webContents.send(channel, payload): the message follows those already sent
SendFirst(log, msg) == <<msg>> \o log

Send(log, msg) == Append(log, msg)

\* activeDownloadProcesses.delete(downloadProcess)
UntrackNone(set, i) == set

UntrackAll(set, i) == {}

Untrack(set, i) == set \ {i}

Emitting(i) == procs[i].spawned /\ ~procs[i].closed

\* .on('progress', ...)
ProcProgress(i, percent) ==
  /\ Emitting(i) /\ ~procs[i].errored
  /\ procs[i].progress < MaxProgress
  /\ procs' = [procs EXCEPT ![i].progress = @ + 1]
  /\ sent' = [sent EXCEPT ![i] = Send(@, ProgressMsg(i, percent))]
  /\ emitted' = [emitted EXCEPT ![i] = Append(@, [event |-> "progress", percent |-> percent])]
  /\ UNCHANGED <<downloadPath, setPath, ui, boot, info, platform, appPhase, now, downloadHistory, activeDownloadProcesses,
                 reqs, kills, appended, lastAppend>>

\* .on('error', ...)
ProcError(i, e) ==
  /\ Emitting(i) /\ ~procs[i].errored
  /\ procs' = [procs EXCEPT ![i].errored = TRUE]
  /\ sent' = [sent EXCEPT ![i] = Send(@, ErrorMsg(i, e))]
  /\ emitted' = [emitted EXCEPT ![i] = Append(@, [event |-> "error", error |-> e])]
  /\ activeDownloadProcesses' = Untrack(activeDownloadProcesses, i)
  /\ UNCHANGED <<downloadPath, setPath, ui, boot, info, platform, appPhase, now, downloadHistory, reqs, kills, appended, lastAppend>>

\* the item of the close listener; clock: what Date.now() returns
CloseItem(i, clock) ==
  HistoryItem(clock, reqs[i].formatCode, reqs[i].sanitizedTitle, reqs[i].filePath,
              reqs[i].extension)

\* .on('close', ...)
ProcClose(i, clock) ==
  /\ Emitting(i)
  /\ clock >= now
  /\ now' = clock
  /\ procs' = [procs EXCEPT ![i].closed = TRUE]
  /\ sent' = [sent EXCEPT ![i] = Send(@, CompleteMsg(i))]
  /\ emitted' = [emitted EXCEPT ![i] = Append(@, [event |-> "close"])]
  /\ activeDownloadProcesses' = Untrack(activeDownloadProcesses, i)
  /\ downloadHistory' = addDownloadToHistory(downloadHistory, CloseItem(i, clock))
  /\ appended' = <<CloseItem(i, clock)>> \o appended
  /\ lastAppend' = [done |-> TRUE, before |-> downloadHistory, item |-> CloseItem(i, clock)]
  /\ UNCHANGED <<downloadPath, setPath, ui, boot, info, platform, appPhase, reqs, kills>>

\* ipcMain.handle('clear-download-history')
ClearDownloadHistory ==
  /\ appPhase = "running"
  /\ downloadHistory # <<>>
  /\ downloadHistory' = ClearHistoryValue
  /\ appended' = <<>>
  /\ lastAppend' = NoAppend
  /\ UNCHANGED <<downloadPath, setPath, ui, boot, info, platform, appPhase, now, activeDownloadProcesses, reqs, procs, sent,
                 kills, emitted>>

\* the commands will-quit issues for one tracked handle (ok: the command went through);
\* killed: proc.killed, taskkillFails: execSync throws
KillCommandsNoFallback(plat, i, killed, taskkillFails) ==
  IF killed THEN {}
  ELSE IF plat = "win32"
       THEN {[pid |-> i, cmd |-> "taskkill", ok |-> ~taskkillFails]}
       ELSE {[pid |-> i, cmd |-> "SIGKILL", ok |-> TRUE]}

KillCommandsBoth(plat, i, killed, taskkillFails) ==
  IF killed THEN {}
  ELSE IF plat = "win32"
       THEN {[pid |-> i, cmd |-> "taskkill", ok |-> ~taskkillFails],
             [pid |-> i, cmd |-> "SIGKILL", ok |-> TRUE]}
       ELSE {[pid |-> i, cmd |-> "SIGKILL", ok |-> TRUE]}

KillCommands(plat, i, killed, taskkillFails) ==
  IF killed THEN {}
  ELSE IF plat = "win32"
       THEN {[pid |-> i, cmd |-> "taskkill", ok |-> ~taskkillFails]}
              \cup (IF taskkillFails THEN {[pid |-> i, cmd |-> "SIGKILL", ok |-> TRUE]} ELSE {})
       ELSE {[pid |-> i, cmd |-> "SIGKILL", ok |-> TRUE]}

\* app.on('will-quit'); failed: the handles whose taskkill throws
WillQuit(failed) ==
  /\ appPhase = "running"
  /\ platform # "win32" => failed = {}
  /\ appPhase' = "quitting"
  /\ kills' = kills \cup
       UNION { KillCommands(platform, i, procs[i].killed, i \in failed) :
                 i \in activeDownloadProcesses }
  /\ procs' = [i \in Handles |->
       IF \E k \in KillCommands(platform, i, procs[i].killed, i \in failed) :
            i \in activeDownloadProcesses /\ k.cmd = "SIGKILL"
       THEN [procs[i] EXCEPT !.killed = TRUE]
       ELSE procs[i]]
  /\ UNCHANGED <<downloadPath, setPath, ui, boot, info, platform, now, downloadHistory, activeDownloadProcesses, reqs, sent,
                 appended, lastAppend, emitted>>

Next ==
  \/ \E i \in Handles, r \in Requests : DownloadVideo(i, r)
  \/ \E i \in Handles, p \in FilePaths \cup {NoPath} : SaveDialogResolved(i, p)
  \/ \E i \in Handles, pc \in Percents : ProcProgress(i, pc)
  \/ \E i \in Handles, e \in ErrorValues : ProcError(i, e)
  \/ \E i \in Handles, clock \in 0..MaxClock : ProcClose(i, clock)
  \/ ClearDownloadHistory
  \/ \E failed \in SUBSET activeDownloadProcesses : WillQuit(failed)

Spec == Init /\ [][Next]_vars

\* every tracked process eventually ends: its handle fires close (or error, then close)
SpecLive ==
  Spec /\ \A i \in Handles : WF_vars((\E clock \in 0..MaxClock : ProcClose(i, clock)) \/ (\E e \in ErrorValues : ProcError(i, e)))

\* One download of a title made of any characters, those the handler removes
\* among them

TitleChars == Forbidden \cup {"a", "b"}

Titles == UNION { [1..n -> TitleChars] : n \in 0..MaxTitle }

TitledRequests ==
  { [url |-> "u", formatCode |-> "137", type |-> "mp4", title |-> t] : t \in Titles }

SanitizeInit == Init /\ platform = "linux"

SanitizeNext ==
  \/ reqs[1].pc = "idle" /\ \E r \in TitledRequests : DownloadVideo(1, r)
  \/ \E p \in FilePaths \cup {NoPath} : SaveDialogResolved(1, p)
  \/ ProcClose(1, 0)

SpecSanitize == SanitizeInit /\ [][SanitizeNext]_vars

-----------------------------------------------------------------------------
(* set-download-path: the directory dialog and store key 'downloadPath',     *)
(* beside the appends and clears of the history                              *)

Directories == {"/dir/1", "/dir/2"}

\* what dialog.showOpenDialog resolves to: cancelled, closed without a
\* directory, or one directory selected (the dialog has no multiSelections)
OpenDialogResults ==
  { [canceled |-> TRUE, filePaths |-> <<>>], [canceled |-> FALSE, filePaths |-> <<>>] }
    \cup { [canceled |-> FALSE, filePaths |-> <<d>>] : d \in Directories }

\* if (!canceled && filePaths.length > 0)
Selected(res) == ~res.canceled /\ Len(res.filePaths) > 0

\* store key 'downloadPath' after the handler: store.set('downloadPath', filePaths[0]) in the branch
SetDownloadPathStoresNothing(stored, res) == stored

SetDownloadPathStore(stored, res) == IF Selected(res) THEN res.filePaths[1] ELSE stored

\* the handler's return value: selectedPath in the branch, store.get('downloadPath') after it
SetDownloadPathReturn(stored, res) == IF Selected(res) THEN res.filePaths[1] ELSE stored

PathFrame ==
  UNCHANGED <<ui, boot, info, platform, appPhase, now, downloadHistory, activeDownloadProcesses,
              reqs, procs, sent, kills, appended, lastAppend, emitted>>

\* the handler up to `await dialog.showOpenDialog`
SetDownloadPath ==
  /\ setPath.pc \in {"none", "done"}
  /\ setPath' = [pc |-> "dialog"]
  /\ UNCHANGED downloadPath
  /\ PathFrame

\* the handler from the dialog's answer on
PathDialogResolved(res) ==
  /\ setPath.pc = "dialog"
  /\ downloadPath' = SetDownloadPathStore(downloadPath, res)
  /\ setPath' = [pc |-> "done", result |-> res,
                 returned |-> SetDownloadPathReturn(downloadPath, res)]
  /\ PathFrame

PathInit == LedgerInit

PathNext ==
  \/ SetDownloadPath
  \/ setPath.pc = "dialog" /\ \E res \in OpenDialogResults : PathDialogResolved(res)
  \/ LedgerAppendNew
  \/ LedgerClear

SpecPath == PathInit /\ [][PathNext]_vars

-----------------------------------------------------------------------------
(* The renderer: the object preload exposes as window.api, the page's        *)
(* listeners, handleFetchInfo and handleDownload, beside one download of     *)
(* the main process whose messages arrive in the order they were sent        *)

\* the keys of the api object of preload.ts
PreloadApi ==
  { "getVideoInfo", "downloadVideo", "getDownloadPath", "setDownloadPath",
    "getDownloadHistory", "clearDownloadHistory", "showItemInFolder",
    "onDownloadProgress", "onDownloadError" }

\* the channel an on* function of preload.ts hands to ipcRenderer.on
ChannelOf(fn) ==
  CASE fn = "onDownloadProgress" -> "download-progress"
    [] fn = "onDownloadError" -> "download-error"

\* the functions setupListeners calls if window.api has them
ListenerFunctions == {"onDownloadProgress", "onDownloadComplete", "onDownloadError"}

\* the channels the page listens on after setupListeners
SetupListeners(api) == { ChannelOf(fn) : fn \in ListenerFunctions \cap api }

\* the fixed texts of handleFetchInfo (in Korean in the source)
EnterUrlText == "Enter a YouTube video URL."

FetchFailedText == "An error occurred while fetching the video information."

\* what window.api.getVideoInfo(url) settles to: the value get-video-info
\* returns for a metadata object or for a throw of the fetch, or a rejection
RendererFetches ==
  { [ok |-> TRUE,
     metadata |-> [title |-> "t", thumbnail |-> "th",
                   formats |-> << CHOOSE d \in Catalogue : d.format_id = "137",
                                  CHOOSE d \in Catalogue : d.format_id = "140" >>]] }
    \cup { [ok |-> FALSE, error |-> e] : e \in ErrorValues }

InvokeOutcomes ==
  { [settled |-> "resolved", value |-> InfoResult(fetch)] : fetch \in RendererFetches }
    \cup { [settled |-> "rejected"] }

\* if (info.error)
HasError(value) == "error" \in DOMAIN value /\ value.error # ""

\* handleFetchInfo from the settling of the await on, without the try/catch
SettleNoCatch(u, outcome) ==
  IF outcome.settled = "resolved"
  THEN [ (IF HasError(outcome.value)
          THEN [u EXCEPT !.error = outcome.value.error]
          ELSE [u EXCEPT !.videoInfo = outcome.value])
         EXCEPT !.loading = FALSE, !.pc = "idle", !.settled = outcome.settled ]
  ELSE [u EXCEPT !.pc = "idle", !.settled = outcome.settled]

\* handleFetchInfo from the settling of the await on: the try's rest or the
\* catch, then setLoading(false)
Settle(u, outcome) ==
  [ (IF outcome.settled = "resolved"
     THEN IF HasError(outcome.value)
          THEN [u EXCEPT !.error = outcome.value.error]
          ELSE [u EXCEPT !.videoInfo = outcome.value]
     ELSE [u EXCEPT !.error = FetchFailedText])
    EXCEPT !.loading = FALSE, !.pc = "idle", !.settled = outcome.settled ]

\* the callbacks setupListeners registers, applied to a message that arrives
Receive(u, msg) ==
  IF msg.channel \notin u.listeners THEN u
  ELSE CASE msg.channel = "download-progress" ->
              [u EXCEPT !.downloadProgress = Put(@, msg.payload.itag, msg.payload.percent)]
         [] msg.channel = "download-complete" ->
              [u EXCEPT !.completedFiles = Put(@, msg.payload.itag, msg.payload.filePath)]
         [] msg.channel = "download-error" ->
              [u EXCEPT !.downloadErrors = Put(@, msg.payload.itag, msg.payload.error),
                        !.downloadProgress = Delete(@, msg.payload.itag)]

RendererFrame ==
  UNCHANGED <<downloadPath, setPath, boot, info, platform, appPhase, now, downloadHistory,
              activeDownloadProcesses, reqs, procs, sent, kills, appended, lastAppend, emitted>>

\* the page's effect: window.api is there, setApiReady(true), setupListeners()
Mount ==
  /\ ~ui.apiReady
  /\ ui' = [ui EXCEPT !.apiReady = TRUE, !.listeners = SetupListeners(PreloadApi)]
  /\ RendererFrame

\* handleFetchInfo up to the await, on a click of the button (disabled while
\* loading or before the api is ready) with url in the input
HandleFetchInfo(url) ==
  /\ ui.apiReady /\ ~ui.loading
  /\ "getVideoInfo" \in PreloadApi
  /\ ui' = IF url = ""
           THEN [ui EXCEPT !.url = url, !.error = EnterUrlText]
           ELSE [ui EXCEPT !.url = url, !.pc = "awaiting", !.settled = "none",
                           !.loading = TRUE, !.error = "", !.videoInfo = Null,
                           !.downloadProgress = EmptyObject,
                           !.downloadErrors = EmptyObject,
                           !.completedFiles = EmptyObject]
  /\ RendererFrame

\* window.api.getVideoInfo(url) settles
FetchSettled(outcome) ==
  /\ ui.pc = "awaiting"
  /\ ui' = Settle(ui, outcome)
  /\ RendererFrame

\* handleDownload up to the await, on a click of the button of entry k of
\* videoInfo.formats ([itag]: undefined reads as a key that is not there;
\* the title of the model's metadata is one character)
HandleDownload(k) ==
  /\ ui.apiReady /\ "downloadVideo" \in PreloadApi
  /\ ui.videoInfo # Null
  /\ k \in 1..Len(ui.videoInfo.formats)
  /\ ui.invoked = <<>>
  /\ LET format == ui.videoInfo.formats[k]
     IN ui' = [ui EXCEPT !.downloadProgress = Put(@, format.itag, 0),
                         !.downloadErrors = Delete(@, format.itag),
                         !.invoked = Append(@, [url |-> ui.url, formatCode |-> format.itag,
                                                type |-> format.type,
                                                title |-> <<ui.videoInfo.title>>])]
  /\ RendererFrame

\* the next message sent to the window arrives and ipcRenderer calls the
\* listeners of its channel
Deliver ==
  /\ ui.delivered < Len(sent[1])
  /\ ui' = Receive([ui EXCEPT !.delivered = @ + 1], sent[1][ui.delivered + 1])
  /\ RendererFrame

RendererInit == Init /\ platform = "linux"

RendererNext ==
  \/ Mount
  \/ \E url \in {"", "u"} : HandleFetchInfo(url)
  \/ ui.pc = "awaiting" /\ \E outcome \in InvokeOutcomes : FetchSettled(outcome)
  \/ ui.videoInfo # Null /\ \E k \in 1..Len(ui.videoInfo.formats) : HandleDownload(k)
  \/ ui.invoked # <<>> /\ DownloadVideo(1, ui.invoked[1])
  \/ \E p \in FilePaths \cup {NoPath} : SaveDialogResolved(1, p)
  \/ \E pc \in Percents : ProcProgress(1, pc)
  \/ \E e \in ErrorValues : ProcError(1, e)
  \/ ProcClose(1, 0)
  \/ Deliver

SpecRenderer == RendererInit /\ [][RendererNext]_vars

\* the promise of ipcRenderer.invoke settles: get-video-info returns from
\* its try or from its catch, and a handler that is missing or throws
\* rejects the promise
SpecRendererLive ==
  SpecRenderer /\ WF_vars(ui.pc = "awaiting" /\ \E outcome \in InvokeOutcomes : FetchSettled(outcome))

-----------------------------------------------------------------------------
(* The history ledger *)

\* C1: after any sequence of addDownloadToHistory and clear-download-history
\* from the empty history, no two entries of downloadHistory have the same
\* filePath.
C1_NoDuplicatePaths ==
  \A a, b \in 1..Len(downloadHistory) :
    a # b => downloadHistory[a].filePath # downloadHistory[b].filePath

\* an item was appended whose path was already in the list
C1_Witness ==
  /\ lastAppend.done
  /\ lastAppend.item.filePath \in Paths(lastAppend.before)
  /\ Len(downloadHistory) >= 2

\* the appends since the last clear that are the newest of their path
NewestOfPath == { k \in 1..Len(appended) :
                    \A j \in 1..(k - 1) : appended[j].filePath # appended[k].filePath }

\* C2 as stated: never more than 50 entries, and once more than 50 items
\* have been appended the list is the 50 most recently appended items,
\* newest first.
C2_Original ==
  /\ Len(downloadHistory) <= HistoryCap
  /\ Len(appended) > HistoryCap => downloadHistory = SubSeq(appended, 1, HistoryCap)

\* C2 as amended: never more than 50 entries, and the list is, newest first,
\* the 50 most recent of the items appended since the last clear, an item
\* counting only if no later append has its filePath (all of them when they
\* are fewer than 50).
C2_FiftyMostRecentPaths ==
  LET newest == NewestOfPath
      rank(k) == Cardinality({ j \in newest : j <= k })
  IN /\ Len(downloadHistory) <= HistoryCap
     /\ Len(downloadHistory) = Min(HistoryCap, Cardinality(newest))
     /\ \A k \in newest : rank(k) <= HistoryCap => downloadHistory[rank(k)] = appended[k]

\* more than 50 paths were appended and the oldest has been evicted
C2_Witness ==
  /\ Cardinality(Paths(appended)) > HistoryCap
  /\ Len(downloadHistory) = HistoryCap
  /\ appended[Len(appended)].filePath \notin Paths(downloadHistory)
  /\ downloadHistory[1] = appended[1]

\* C3: addDownloadToHistory(x) on the list H stores x, then the entries of H
\* whose filePath differs from x's in their order, cut to 50 entries; x is
\* first and no other entry has its path (so also when H had x's path at
\* position 3).
C3_AppendResult ==
  lastAppend.done =>
    LET H == lastAppend.before
        x == lastAppend.item
        kept == { j \in 1..Len(H) : H[j].filePath # x.filePath }
        place(j) == 1 + Cardinality({ k \in kept : k <= j })
    IN /\ Len(downloadHistory) = Min(HistoryCap, 1 + Cardinality(kept))
       /\ downloadHistory[1] = x
       /\ \A j \in kept : place(j) <= HistoryCap => downloadHistory[place(j)] = H[j]
       /\ \A k \in 2..Len(downloadHistory) : downloadHistory[k].filePath # x.filePath

\* x's path was at position 3 (counted from 0) of the list x was appended to
C3_Witness ==
  /\ lastAppend.done
  /\ Len(lastAppend.before) >= 5
  /\ lastAppend.before[4].filePath = lastAppend.item.filePath
  /\ lastAppend.before[4] # lastAppend.item
  /\ downloadHistory[1] = lastAppend.item
  /\ downloadHistory[5] = lastAppend.before[5]

-----------------------------------------------------------------------------
(* Shutdown *)

\* will-quit's command for handle i went through: taskkill succeeded, or SIGKILL was sent
Terminated(i) == \E k \in kills : k.pid = i /\ k.ok

\* C4: when will-quit runs, every handle that is in activeDownloadProcesses
\* at that moment is sent a forceful termination (tree-kill or SIGKILL) by
\* that run.
C4_QuitTerminatesTracked ==
  [][ (appPhase = "running" /\ appPhase' = "quitting") =>
        \A i \in activeDownloadProcesses :
          \E k \in kills' \ kills :
            k.pid = i /\ k.ok /\ k.cmd \in {"taskkill", "SIGKILL"} ]_vars

\* will-quit has run on win32 with two tracked processes, taskkill failing for one
C4_Witness ==
  /\ appPhase = "quitting"
  /\ platform = "win32"
  /\ \E i, j \in activeDownloadProcesses :
       /\ i # j
       /\ [pid |-> i, cmd |-> "taskkill", ok |-> FALSE] \in kills
       /\ [pid |-> i, cmd |-> "SIGKILL", ok |-> TRUE] \in kills
       /\ [pid |-> j, cmd |-> "taskkill", ok |-> TRUE] \in kills

\* handle i's close listener runs in this step
Closes(i) == procs[i].spawned /\ ~procs[i].closed /\ procs'[i].closed

\* handle i's error listener runs in this step
Errors(i) == procs[i].spawned /\ ~procs[i].errored /\ procs'[i].errored

\* C5: when a process terminated by will-quit fires close, no
\* download-complete notification is sent for it and no history item is
\* written for it.
C5_NoCompletionAfterKill ==
  [][ \A i \in Handles :
        (Terminated(i) /\ Closes(i)) =>
          (sent'[i] = sent[i] /\ downloadHistory' = downloadHistory) ]_vars

-----------------------------------------------------------------------------
(* The listeners *)

OthersKeepSent(i) == \A j \in Handles \ {i} : sent'[j] = sent[j]

\* C6: when a download's close event fires, download-complete with the
\* request's formatCode and the chosen filePath is sent, the handle leaves
\* activeDownloadProcesses, and afterwards the first history item has that
\* filePath, the sanitized title and the request's kind.
C6_CloseCompletes ==
  [][ \A i \in Handles :
        Closes(i) =>
          /\ sent'[i] = Append(sent[i],
               [ channel |-> "download-complete",
                 payload |-> [itag |-> reqs[i].formatCode, filePath |-> reqs[i].filePath] ])
          /\ OthersKeepSent(i)
          /\ reqs[i].filePath \in FilePaths
          /\ i \notin activeDownloadProcesses'
          /\ Len(downloadHistory') >= 1
          /\ downloadHistory'[1].filePath = reqs[i].filePath
          /\ downloadHistory'[1].title = Sanitize(reqs[i].title)
          /\ \A c \in Forbidden, k \in 1..Len(downloadHistory'[1].title) :
               downloadHistory'[1].title[k] # c
          /\ downloadHistory'[1].type = reqs[i].type ]_vars

\* a download whose title had forbidden characters has closed while another was tracked
C6_Witness ==
  \E i \in Handles :
    /\ procs[i].closed
    /\ Len(sent[i]) >= 2 /\ sent[i][Len(sent[i])].channel = "download-complete"
    /\ i \notin activeDownloadProcesses /\ activeDownloadProcesses # {}
    /\ Len(downloadHistory) >= 1 /\ downloadHistory[1].filePath = reqs[i].filePath
    /\ downloadHistory[1].title # reqs[i].title

\* C7: when a download's error event fires, download-error with the
\* request's formatCode and a message is sent, the handle leaves
\* activeDownloadProcesses, the application is not quit, and
\* downloadHistory is unchanged.
C7_ErrorReported ==
  [][ \A i \in Handles :
        Errors(i) =>
          /\ Len(sent'[i]) = Len(sent[i]) + 1
          /\ SubSeq(sent'[i], 1, Len(sent[i])) = sent[i]
          /\ sent'[i][Len(sent'[i])].channel = "download-error"
          /\ sent'[i][Len(sent'[i])].payload.itag = reqs[i].formatCode
          /\ sent'[i][Len(sent'[i])].payload.error \in {"boom", UnknownError}
          /\ OthersKeepSent(i)
          /\ i \notin activeDownloadProcesses'
          /\ appPhase' = appPhase
          /\ downloadHistory' = downloadHistory ]_vars

\* a download has failed with a non-empty history and the application still running
C7_Witness ==
  \E i \in Handles :
    /\ procs[i].errored /\ ~procs[i].closed
    /\ Len(sent[i]) >= 2 /\ sent[i][Len(sent[i])].channel = "download-error"
    /\ sent[i][Len(sent[i])].payload.error = UnknownError
    /\ i \notin activeDownloadProcesses
    /\ appPhase = "running"
    /\ downloadHistory # <<>>

\* the save dialog of request i has been cancelled
Cancelled(i) == reqs[i].pc = "done" /\ reqs[i].filePath = NoPath

\* C8: when the save dialog of a download-video request is cancelled, no
\* process is spawned, activeDownloadProcesses and downloadHistory are
\* unchanged, and no progress, completion or error notification is ever
\* sent for that request.
C8_CancelIsNoOp ==
  /\ [][ \A i \in Handles :
           (reqs[i].pc = "dialog" /\ Cancelled(i)') =>
             /\ procs' = procs
             /\ activeDownloadProcesses' = activeDownloadProcesses
             /\ downloadHistory' = downloadHistory
             /\ sent' = sent ]_vars
  /\ [](\A i \in Handles :
          Cancelled(i) =>
            /\ ~procs[i].spawned
            /\ i \notin activeDownloadProcesses
            /\ sent[i] = <<>>)

\* a request was cancelled with a download tracked, which then ran to its close
C8_Witness ==
  \E i, j \in Handles :
    /\ Cancelled(i)
    /\ procs[j].closed
    /\ Len(sent[j]) >= 2
    /\ downloadHistory # <<>>

\* the handles spawned whose close and error events have not been handled
InFlight == { i \in Handles : procs[i].spawned /\ ~procs[i].closed /\ ~procs[i].errored }

\* C9: activeDownloadProcesses is exactly the set of processes spawned that
\* have fired neither close nor error; and when every spawned process
\* eventually fires close or error, each handle leaves the set and the set
\* becomes empty.
C9_ActiveIsInFlight ==
  /\ [](activeDownloadProcesses = InFlight)
  /\ \A i \in Handles : (i \in activeDownloadProcesses) ~> (i \notin activeDownloadProcesses)
  /\ (activeDownloadProcesses # {}) ~> (activeDownloadProcesses = {})

\* one process is tracked while another has left the set on its error event
C9_Witness ==
  \E i, j \in Handles :
    /\ i \in activeDownloadProcesses /\ procs[i].spawned
    /\ procs[j].spawned /\ procs[j].errored /\ j \notin activeDownloadProcesses

\* C10: with several downloads in flight, an error event of one changes
\* neither the membership of another in activeDownloadProcesses nor what
\* the others' listeners read and have sent (their request, their handle,
\* their messages, the history), and every message and every history item
\* of a download is made of that download's own request.
C10_ErrorIsolated ==
  /\ [][ \A i \in Handles :
           Errors(i) =>
             /\ \A j \in Handles \ {i} :
                  /\ (j \in activeDownloadProcesses') = (j \in activeDownloadProcesses)
                  /\ reqs'[j] = reqs[j]
                  /\ procs'[j] = procs[j]
                  /\ sent'[j] = sent[j]
             /\ downloadHistory' = downloadHistory ]_vars
  /\ [](\A j \in Handles : \A k \in 1..Len(sent[j]) :
          /\ sent[j][k].payload.itag = reqs[j].formatCode
          /\ sent[j][k].channel = "download-complete" =>
               sent[j][k].payload.filePath = reqs[j].filePath)
  /\ [][ \A j \in Handles :
           Closes(j) =>
             /\ downloadHistory'[1].filePath = reqs[j].filePath
             /\ downloadHistory'[1].id[2] = reqs[j].formatCode ]_vars

\* one download has failed while another, which has sent progress, is still tracked
C10_Witness ==
  \E i, j \in Handles :
    /\ i # j
    /\ procs[i].errored /\ i \notin activeDownloadProcesses
    /\ j \in activeDownloadProcesses
    /\ Len(sent[j]) >= 1 /\ sent[j][1].channel = "download-progress"

-----------------------------------------------------------------------------
(* Startup *)

C13_FatalStartupError ==
  boot.thrown # <<>> =>
    /\ boot.pc = "failed"
    /\ Len(boot.thrown) = 1
    /\ boot.errorBox = << [ title |-> "Critical Error",
                            errorMsg |-> boot.thrown[1].error.message ] >>
    /\ boot.quit
    /\ ~boot.wrapper
    /\ \A k \in 1..Len(boot.created) : boot.created[k] # "startup"
    /\ boot.thrown[1].step = "store" => (~boot.store /\ boot.fetched = <<>>)
    /\ boot.thrown[1].step = "fetch" => (boot.store /\ ~boot.binary)

\* the fetch has failed while a window opened by activate was up
C13_Witness ==
  /\ boot.thrown # <<>> /\ boot.thrown[1].step = "fetch"
  /\ boot.created = <<"activate">> /\ boot.windows = 1
  /\ boot.quit /\ Len(boot.errorBox) = 1

-----------------------------------------------------------------------------
(* get-video-info *)

\* C14: when ytDlpWrap.getVideoInfo throws, the handler returns (it lets no
\* exception out) an object with the one field error, which is the message
\* of the Error thrown (the handler's fixed text for a thrown value that is
\* not an Error and so has no message).
C14_FetchErrorReturned ==
  (info.pc = "done" /\ ~info.fetch.ok) =>
    /\ DOMAIN info.result = {"error"}
    /\ info.fetch.error.isError => info.result.error = info.fetch.error.message
    /\ ~info.fetch.error.isError => info.result.error = UnknownInfoError

\* the fetch threw an Error and its message came back
C14_Witness ==
  /\ info.pc = "done" /\ ~info.fetch.ok
  /\ info.fetch.error.isError
  /\ info.result = [error |-> "boom"]

\* the request has been answered with format lists
Answered == info.pc = "done" /\ info.fetch.ok

\* the list the fetch gave, and the two lists the handler made of it
Given == info.fetch.metadata.formats

VideoOut == SelectSeq(info.result.formats, LAMBDA e : e.type = "mp4")

AudioOut == SelectSeq(info.result.formats, LAMBDA e : e.type = "mp3")

\* the descriptor of the given list an entry was made of (format ids are distinct)
SourceOf(e) == Given[CHOOSE i \in 1..Len(Given) : Given[i].format_id = e.itag]

\* C15: the video entries are in strictly decreasing order of height, so no
\* two of them have the same height.
C15_VideoHeightsDecrease ==
  Answered =>
    /\ \A k \in 1..(Len(VideoOut) - 1) :
         SourceOf(VideoOut[k]).height > SourceOf(VideoOut[k + 1]).height
    /\ \A a, b \in 1..Len(VideoOut) :
         a # b => SourceOf(VideoOut[a]).height # SourceOf(VideoOut[b]).height
    /\ info.result.formats = VideoOut \o AudioOut

\* three qualifying descriptors, two of one height, were given with the lower height first
C15_Witness ==
  /\ Answered
  /\ Len(SelectSeq(Given, IsVideo)) = 3
  /\ Len(VideoOut) = 2
  /\ IsVideo(Given[1]) /\ Given[1].format_id = VideoOut[2].itag

\* C16 as stated: at most 3 audio entries, in strictly decreasing order of
\* bitrate.
C16_Original ==
  Answered =>
    /\ Len(AudioOut) <= AudioCap
    /\ \A k \in 1..(Len(AudioOut) - 1) :
         SourceOf(AudioOut[k]).abr > SourceOf(AudioOut[k + 1]).abr

\* C16 as amended: at most 3 audio entries, in non-increasing order of
\* bitrate; descriptors of equal bitrate are both listed, in the order they
\* were given.
C16_AudioAtMostThreeNonIncreasing ==
  Answered =>
    /\ Len(AudioOut) <= AudioCap
    /\ \A k \in 1..(Len(AudioOut) - 1) :
         /\ SourceOf(AudioOut[k]).abr >= SourceOf(AudioOut[k + 1]).abr
         /\ SourceOf(AudioOut[k]).abr = SourceOf(AudioOut[k + 1]).abr =>
              \E a, b \in 1..Len(Given) :
                /\ a < b
                /\ Given[a].format_id = AudioOut[k].itag
                /\ Given[b].format_id = AudioOut[k + 1].itag

\* four qualifying descriptors were given, two of them of one bitrate, and three are listed
C16_Witness ==
  /\ Answered
  /\ Len(SelectSeq(Given, IsAudio)) = 4
  /\ Len(AudioOut) = 3
  /\ SourceOf(AudioOut[2]).abr = SourceOf(AudioOut[3]).abr

\* the number a decimal string writes
RECURSIVE DecimalValue(_)
DecimalValue(str) ==
  IF str = <<>> THEN 0
  ELSE 10 * DecimalValue(SubSeq(str, 1, Len(str) - 1))
         + ((CHOOSE d \in 1..10 : DigitChars[d] = str[Len(str)]) - 1)

\* a descriptor's size: filesize if it is there (and not 0), else
\* filesize_approx if it is there (and not 0), else 0
OwnSize(f) ==
  IF f.filesize # Undefined /\ f.filesize # 0 THEN f.filesize
  ELSE IF f.filesize_approx # Undefined /\ f.filesize_approx # 0 THEN f.filesize_approx
  ELSE 0

\* the positions of the given descriptors with a video codec, an audio codec
\* and a positive bitrate
Combined ==
  { i \in 1..Len(Given) :
      /\ Given[i].vcodec # "none" /\ Given[i].acodec # "none"
      /\ Given[i].abr # Undefined /\ Given[i].abr > 0 }

\* the size of the one of them with the highest bitrate (the first given of
\* those that have it), 0 when there is none
BestCombinedSize ==
  IF Combined = {} THEN 0
  ELSE OwnSize(Given[CHOOSE i \in Combined :
                       \A j \in Combined :
                         Given[j].abr < Given[i].abr \/ (Given[j].abr = Given[i].abr /\ i <= j)])

\* C17: the contentLength of every video entry is the decimal string of its
\* descriptor's own size plus the size of the highest-bitrate descriptor with
\* both codecs and a positive bitrate (0 if there is none), and it is absent
\* exactly when that sum is 0.
C17_CombinedSize ==
  Answered =>
    \A k \in 1..Len(VideoOut) :
      LET sum == OwnSize(SourceOf(VideoOut[k])) + BestCombinedSize
      IN /\ (VideoOut[k].contentLength = NoString) <=> (sum = 0)
         /\ sum > 0 =>
              /\ DecimalValue(VideoOut[k].contentLength) = sum
              /\ VideoOut[k].contentLength[1] # "0"
              /\ \A c \in 1..Len(VideoOut[k].contentLength) :
                   IsDigit(VideoOut[k].contentLength[c])

\* the higher-bitrate descriptor with both codecs was given after the lower one; its
\* size is added to the approximate size of one entry and is the whole of another's
C17_Witness ==
  /\ Answered
  /\ Len(Given) = 4
  /\ Given[1].format_id = "18" /\ Given[2].format_id = "22"
  /\ Len(VideoOut) = 2
  /\ VideoOut[1].contentLength = <<"4", "7", "0">>
  /\ VideoOut[2].contentLength = <<"7", "0">>

\* C18: the entry of a height is made of the first given descriptor, among
\* those that qualify, of that height: it has its format id and its size. So
\* 1080 (500), 1080 (400), 720 (200) with a best-audio size of 50 give
\* 1080p of size 550 and 720p of size 250.
C18_FirstOfHeightWins ==
  Answered =>
    \A k \in 1..Len(VideoOut) :
      LET first == CHOOSE i \in 1..Len(Given) :
                     /\ IsVideo(Given[i])
                     /\ Given[i].height = SourceOf(VideoOut[k]).height
                     /\ \A j \in 1..(i - 1) :
                          ~(IsVideo(Given[j]) /\ Given[j].height = Given[i].height)
      IN /\ VideoOut[k].itag = Given[first].format_id
         /\ VideoOut[k].contentLength =
              ContentLength(OwnSize(Given[first]) + BestCombinedSize)

\* the example: 1080 (500), then 1080 (400), then 720 (200), and a best-audio size of 50
C18_Witness ==
  /\ Answered
  /\ Len(Given) = 4
  /\ Given[1].format_id = "137" /\ Given[2].format_id = "299"
  /\ Given[3].format_id = "136" /\ Given[4].format_id = "18"
  /\ Len(VideoOut) = 2
  /\ VideoOut[1].quality = <<"1", "0", "8", "0", "p">>
  /\ VideoOut[1].contentLength = <<"5", "5", "0">>
  /\ VideoOut[2].quality = <<"7", "2", "0", "p">>
  /\ VideoOut[2].contentLength = <<"2", "5", "0">>

-----------------------------------------------------------------------------
(* The download request *)

C19_ArgumentList ==
  \A i \in Handles :
    procs[i].spawned =>
      /\ reqs[i].filePath \in FilePaths
      /\ reqs[i].type = "mp3" =>
           reqs[i].args = << reqs[i].url, "-f", reqs[i].formatCode,
                             "-x", "--audio-format", "mp3", "-o", reqs[i].filePath >>
      /\ reqs[i].type # "mp3" =>
           reqs[i].args = << reqs[i].url, "-f", reqs[i].formatCode, "-o", reqs[i].filePath >>

\* an mp3 and an mp4 download have been started, to different paths
C19_Witness ==
  \E i, j \in Handles :
    /\ procs[i].spawned /\ procs[j].spawned
    /\ reqs[i].type = "mp3" /\ Len(reqs[i].args) = 8
    /\ reqs[j].type = "mp4" /\ Len(reqs[j].args) = 5
    /\ reqs[i].filePath # reqs[j].filePath

\* C20: the sanitized title is the title without its characters
\* \ / : * ? " < > | and with every other character, in the title's order;
\* sanitizing it again gives it back.
C20_SanitizedTitle ==
  \A i \in Handles :
    reqs[i].pc # "idle" =>
      LET title == reqs[i].title
          sanitizedTitle == reqs[i].sanitizedTitle
          others == { k \in 1..Len(title) :
                        title[k] \notin {"\\", "/", ":", "*", "?", "\"", "<", ">", "|"} }
          place(k) == Cardinality({ j \in others : j <= k })
      IN /\ Len(sanitizedTitle) = Cardinality(others)
         /\ \A k \in others : sanitizedTitle[place(k)] = title[k]
         /\ Sanitize(sanitizedTitle) = sanitizedTitle

\* a title with a removed character between two kept ones has been sanitized
\* and is the title of the history item
C20_Witness ==
  /\ reqs[1].pc = "done"
  /\ reqs[1].title = <<"a", "|", "b">>
  /\ reqs[1].sanitizedTitle = <<"a", "b">>
  /\ downloadHistory # <<>> /\ downloadHistory[1].title = <<"a", "b">>

-----------------------------------------------------------------------------
(* Shutdown, history and completion, continued *)

\* the commands this run of will-quit issues
Issued == kills' \ kills

\* C21: will-quit on win32 issues taskkill for each tracked process and
\* SIGKILL for exactly those whose taskkill failed; on the other platforms it
\* issues SIGKILL for each and never taskkill; and whichever taskkill fails,
\* every tracked process is sent a command that goes through.
C21_TreeKillWithFallback ==
  [][ (appPhase = "running" /\ appPhase' = "quitting") =>
        /\ \A k \in Issued : k.pid \in activeDownloadProcesses
        /\ \A i \in activeDownloadProcesses :
             /\ platform = "win32" =>
                  /\ \E k \in Issued : k.pid = i /\ k.cmd = "taskkill"
                  /\ (\E k \in Issued : k.pid = i /\ k.cmd = "SIGKILL")
                       <=> (\E k \in Issued : k.pid = i /\ k.cmd = "taskkill" /\ ~k.ok)
             /\ platform # "win32" =>
                  /\ \E k \in Issued : k.pid = i /\ k.cmd = "SIGKILL"
                  /\ \A k \in Issued : k.cmd # "taskkill"
             /\ \E k \in Issued : k.pid = i /\ k.ok ]_vars

\* will-quit has run on win32 with two tracked processes and taskkill failed for both
C21_Witness ==
  /\ appPhase = "quitting"
  /\ platform = "win32"
  /\ Cardinality(activeDownloadProcesses) = 2
  /\ \A i \in activeDownloadProcesses :
       /\ [pid |-> i, cmd |-> "taskkill", ok |-> FALSE] \in kills
       /\ [pid |-> i, cmd |-> "SIGKILL", ok |-> TRUE] \in kills

\* the entries of a list
Entries(h) == { h[k] : k \in 1..Len(h) }

\* the step is clear-download-history
Clears == downloadHistory' = <<>> /\ appended' = <<>>

\* the step is an append
Appends == lastAppend'.done /\ Len(appended') = Len(appended) + 1

\* C22 as stated: an entry leaves downloadHistory only in a clear, or in an
\* append to a list of 50 entries as the last of them.
C22_Original ==
  [][ \A e \in Entries(downloadHistory) \ Entries(downloadHistory') :
        \/ Clears
        \/ /\ Appends
           /\ Len(downloadHistory) = HistoryCap
           /\ e = downloadHistory[HistoryCap] ]_vars

\* C22 as amended: an entry leaves downloadHistory only in a clear, or in an
\* append of an item with the entry's filePath (which takes its place at the
\* head), or in an append of an item of a new path to a list of 50 entries,
\* as the last of them.
C22_LeavesByClearEvictionOrReplacement ==
  [][ \A e \in Entries(downloadHistory) \ Entries(downloadHistory') :
        \/ Clears
        \/ /\ Appends
           /\ e.filePath = lastAppend'.item.filePath
           /\ downloadHistory'[1] = lastAppend'.item
        \/ /\ Appends
           /\ lastAppend'.item.filePath \notin Paths(downloadHistory)
           /\ Len(downloadHistory) = HistoryCap
           /\ e = downloadHistory[HistoryCap] ]_vars

\* an item was appended to a full list that had its path: the entry of that path has
\* left, the last entry has stayed
C22_Witness ==
  /\ lastAppend.done
  /\ Len(lastAppend.before) = HistoryCap
  /\ Len(downloadHistory) = HistoryCap
  /\ lastAppend.item.filePath \in Paths(lastAppend.before)
  /\ lastAppend.item \notin Entries(lastAppend.before)
  /\ downloadHistory[HistoryCap] = lastAppend.before[HistoryCap]

\* C23: no two entries of downloadHistory have the same id.
C23_UniqueIds ==
  \A a, b \in 1..Len(downloadHistory) :
    a # b => downloadHistory[a].id # downloadHistory[b].id

\* C25: the closes of downloads in flight together are applied one after the
\* other, each to the list the one before left: as long as the items
\* appended since the start (or the last clear) have pairwise distinct
\* filePaths and are at most 50, downloadHistory is those items, newest
\* close first.
C25_ClosesAppendAtomically ==
  (/\ Len(appended) <= HistoryCap
   /\ \A a, b \in 1..Len(appended) : a # b => appended[a].filePath # appended[b].filePath)
    => downloadHistory = appended

\* two downloads were in flight together, the second requested closed first
C25_Witness ==
  /\ procs[1].closed /\ procs[2].closed
  /\ Len(sent[1]) >= 2 /\ Len(sent[2]) >= 2
  /\ Len(downloadHistory) = 2
  /\ downloadHistory[1].filePath = reqs[1].filePath
  /\ downloadHistory[2].filePath = reqs[2].filePath
  /\ reqs[1].filePath # reqs[2].filePath

\* C26: when a download's close event fires, a download-progress message with
\* percent 100 and, separately, the download-complete message are sent for
\* its format identifier.
C26_CloseReportsHundred ==
  [][ \A i \in Handles :
        Closes(i) =>
          /\ \E k \in (Len(sent[i]) + 1)..Len(sent'[i]) :
               /\ sent'[i][k].channel = "download-progress"
               /\ sent'[i][k].payload.itag = reqs[i].formatCode
               /\ sent'[i][k].payload.percent = 100
          /\ \E k \in (Len(sent[i]) + 1)..Len(sent'[i]) :
               /\ sent'[i][k].channel = "download-complete"
               /\ sent'[i][k].payload.itag = reqs[i].formatCode ]_vars

-----------------------------------------------------------------------------
(* Startup and get-video-info, continued *)

\* C24: whenever a window has been created, by the startup sequence or by
\* activate, the store is initialised, the yt-dlp binary is in place and the
\* wrapper is configured.
C24_WindowAfterStartup ==
  boot.created # <<>> => boot.store /\ boot.binary /\ boot.wrapper

\* the positions of the given descriptors with no video codec, an audio
\* codec and a positive bitrate
AudioQualifying ==
  { i \in 1..Len(Given) :
      /\ Given[i].vcodec = "none" /\ Given[i].acodec # "none"
      /\ Given[i].abr # Undefined /\ Given[i].abr > 0 }

\* the letters after the number in an audio entry's quality label
Kbps == <<"k", "b", "p", "s">>

\* C28: the audio entries are made of min(3, n) different descriptors of the
\* n qualifying ones; no qualifying descriptor left out has a higher bitrate
\* than one that is listed; and each entry's quality is the decimal string
\* of its descriptor's bitrate rounded to the nearest integer (a half rounds
\* up), followed by 'kbps'.
C28_TopThreeAudioLabelled ==
  Answered =>
    /\ Len(AudioOut) = Min(AudioCap, Cardinality(AudioQualifying))
    /\ \A a, b \in 1..Len(AudioOut) : a # b => AudioOut[a].itag # AudioOut[b].itag
    /\ \A k \in 1..Len(AudioOut) :
         \E i \in AudioQualifying : Given[i].format_id = AudioOut[k].itag
    /\ \A i \in AudioQualifying :
         (\A k \in 1..Len(AudioOut) : AudioOut[k].itag # Given[i].format_id) =>
           \A k \in 1..Len(AudioOut) : Given[i].abr <= SourceOf(AudioOut[k]).abr
    /\ \A k \in 1..Len(AudioOut) :
         LET q == AudioOut[k].quality
             n == Len(q) - Len(Kbps)
             abr == SourceOf(AudioOut[k]).abr      \* in tenths of kbps
         IN /\ n >= 1
            /\ SubSeq(q, n + 1, Len(q)) = Kbps
            /\ \A c \in 1..n : IsDigit(q[c])
            /\ 10 * DecimalValue(SubSeq(q, 1, n)) - 5 <= abr
            /\ abr < 10 * DecimalValue(SubSeq(q, 1, n)) + 5

\* four qualifying descriptors were given, the one of the lowest bitrate first; it is
\* left out, and a bitrate of 129.5 is listed as 130kbps
C28_Witness ==
  /\ Answered
  /\ Cardinality(AudioQualifying) = 4
  /\ Len(AudioOut) = 3
  /\ \A k \in 1..Len(AudioOut) : AudioOut[k].itag # Given[1].format_id
  /\ \E k \in 1..Len(AudioOut) :
       /\ SourceOf(AudioOut[k]).abr = 1295
       /\ AudioOut[k].quality = <<"1", "3", "0">> \o Kbps

-----------------------------------------------------------------------------
(* set-download-path *)

\* the step is the return of set-download-path
PathReturns == setPath.pc = "dialog" /\ setPath'.pc = "done"

\* C29: when the directory dialog is cancelled or gives no path,
\* set-download-path leaves downloadPath and downloadHistory as they were
\* and returns the stored path; when a directory is selected it stores that
\* directory and returns it; and nothing else changes downloadPath.
C29_SetDownloadPath ==
  [][ /\ PathReturns =>
           LET res == setPath'.result
           IN IF res.canceled \/ res.filePaths = <<>>
              THEN /\ downloadPath' = downloadPath
                   /\ downloadHistory' = downloadHistory
                   /\ setPath'.returned = downloadPath
              ELSE /\ downloadPath' = res.filePaths[1]
                   /\ downloadHistory' = downloadHistory
                   /\ setPath'.returned = res.filePaths[1]
      /\ downloadPath' # downloadPath => PathReturns ]_vars

\* a directory was selected earlier and there is history; the dialog was then
\* cancelled and the handler returned the selected directory
C29_Witness ==
  /\ setPath.pc = "done"
  /\ setPath.result.canceled
  /\ downloadPath \in Directories
  /\ setPath.returned = downloadPath
  /\ Len(downloadHistory) = 2

-----------------------------------------------------------------------------
(* The renderer *)

\* the step is the arrival of a download-complete message
CompleteArrives ==
  /\ ui'.delivered = ui.delivered + 1
  /\ sent[1][ui'.delivered].channel = "download-complete"

\* C27: a download-complete message that arrives is handed to the page's
\* completion callback, so that completedFiles[itag] is its filePath; and
\* once the page has set up its listeners it listens on each of the three
\* channels, preload exposing a subscription function for each.
C27_CompletionReachesRenderer ==
  [][ /\ CompleteArrives =>
           LET payload == sent[1][ui'.delivered].payload
           IN /\ payload.itag \in DOMAIN ui'.completedFiles
              /\ ui'.completedFiles[payload.itag] = payload.filePath
      /\ ui'.apiReady =>
           ui'.listeners = {"download-progress", "download-complete", "download-error"} ]_vars

\* the step is the settling of handleFetchInfo's await
Settles == ui.pc = "awaiting" /\ ui'.pc = "idle"

\* C30: once handleFetchInfo has set loading it is eventually reset, whether
\* the request resolves with info, resolves with an error field or rejects;
\* and when it settles loading is reset and exactly one of videoInfo and
\* error is set.
C30_LoadingEndsOneOfInfoOrError ==
  /\ ui.loading ~> ~ui.loading
  /\ [][ Settles =>
           /\ ~ui'.loading
           /\ (ui'.videoInfo # Null) # (ui'.error # "") ]_vars

\* a request was rejected: loading is reset, the fixed error text is set, no info
C30_Witness ==
  /\ ui.settled = "rejected"
  /\ ui.pc = "idle"
  /\ ~ui.loading
  /\ ui.error = FetchFailedText
  /\ ui.videoInfo = Null

====
